---- MODULE Spec2Model ----
(***************************************************************************)
(* Model of NativeToolsManager (src/src/helpers/native-tools-manager.ts):  *)
(* the resolver that decides, per request, whether the native Gemini tools *)
(* (google_search / url_context) or the caller's custom function tools are *)
(* attached.  The manager parses the environment once in its constructor   *)
(* and then serves determineToolConfiguration and createNativeToolsArray   *)
(* calls.                                                                  *)
(*                                                                         *)
(* Encoding of JavaScript values:                                          *)
(*   - undefined is the string Undefined;                                  *)
(*   - the request's optional booleans are "TRUE" / "FALSE" / Undefined    *)
(*     (TLC cannot compare a boolean with a string);                       *)
(*   - strings that are only compared for equality are TLA+ strings; the   *)
(*     model id, which is searched for a substring, is a sequence of       *)
(*     one-character strings;                                              *)
(*   - an optional array (customTools?: Tool[]) is Absent (<<>>) or        *)
(*     Present(seq) (<<seq>>);                                             *)
(*   - a native tool { google_search: {} } is the string "google_search".  *)
(***************************************************************************)
EXTENDS Naturals, Sequences, FiniteSets

VARIABLES
    env,            \* the Env object handed to the constructor
    envSettings,    \* this.envSettings
    pc,             \* "idle" | "determined" | "built"
    customTools,    \* argument of the call that returned last
    requestParams,  \* argument of the call that returned last
    modelId,        \* argument of the call that returned last
    config,         \* value returned by determineToolConfiguration
    tools,          \* value returned by createNativeToolsArray
    served          \* history: the methods that have returned so far (recorded in SpecFrame)

vars == <<env, envSettings, pc, customTools, requestParams, modelId, config, tools, served>>

----------------------------------------------------------------------------
(* Values *)

Undefined == "undefined"
True3 == "TRUE"
False3 == "FALSE"

Absent == <<>>
Present(x) == <<x>>

GoogleSearch == "google_search"
UrlContext == "url_context"

\* "gemini-1.5", the argument of modelId.includes
LegacyMarker == <<"g", "e", "m", "i", "n", "i", "-", "1", ".", "5">>

\* NATIVE_TOOLS_DEFAULTS.GEMINI_TOOLS_PRIORITY (../constants)
DefaultToolsPriority == "native_first"

----------------------------------------------------------------------------
(* Bounds and input sets *)

MaxCustomTools == 2

ToolIds == {"toolA", "toolB"}

RECURSIVE SeqsUpTo(_, _)
SeqsUpTo(S, n) ==
    IF n = 0 THEN {<<>>}
    ELSE LET shorter == SeqsUpTo(S, n - 1)
         IN  shorter \cup {Append(s, x) : s \in {t \in shorter : Len(t) = n - 1}, x \in S}

CustomToolSeqs == SeqsUpTo(ToolIds, MaxCustomTools)

TriState == {True3, False3, Undefined}

RequestParamsSet ==
    [enableNativeTools : TriState,
     enableSearch : TriState,
     enableUrlContext : TriState,
     nativeToolsPriority : {"native", "custom", Undefined}]

NoParams ==
    [enableNativeTools |-> Undefined, enableSearch |-> Undefined,
     enableUrlContext |-> Undefined, nativeToolsPriority |-> Undefined]

ModelIds ==
    { <<"g", "e", "m", "i", "n", "i", "-", "2", ".", "5", "-", "p", "r", "o">>,
      <<"g", "e", "m", "i", "n", "i", "-", "1", ".", "5", "-", "p", "r", "o">>,
      <<"m", "o", "d", "e", "l", "s", "/", "g", "e", "m", "i", "n", "i", "-", "1", ".", "5",
        "-", "f", "l", "a", "s", "h">> }

\* Raw environment strings handed to the constructor.  "balanced" stands for a
\* GEMINI_TOOLS_PRIORITY value that is neither "native_first" nor "custom_first".
PriorityStrings == {"native_first", "custom_first", Undefined, "", "balanced"}

FlagStrings == {"true", "false", Undefined}

Envs ==
    [ENABLE_GEMINI_NATIVE_TOOLS : FlagStrings,
     ENABLE_GOOGLE_SEARCH : FlagStrings,
     ENABLE_URL_CONTEXT : FlagStrings,
     GEMINI_TOOLS_PRIORITY : PriorityStrings,
     DEFAULT_TO_NATIVE_TOOLS : FlagStrings,
     ALLOW_REQUEST_TOOL_CONTROL : FlagStrings,
     ENABLE_INLINE_CITATIONS : {Undefined},
     INCLUDE_GROUNDING_METADATA : {Undefined},
     INCLUDE_SEARCH_ENTRY_POINT : {Undefined}]

\* The environments of SpecFrame, which also records the call history: every flag
\* takes the value that differs from its default, or is unset.
FrameEnvs ==
    [ENABLE_GEMINI_NATIVE_TOOLS : {"true", Undefined},
     ENABLE_GOOGLE_SEARCH : {"true", Undefined},
     ENABLE_URL_CONTEXT : {"true", Undefined},
     GEMINI_TOOLS_PRIORITY : {"native_first", "custom_first", Undefined, "balanced"},
     DEFAULT_TO_NATIVE_TOOLS : {"false", Undefined},
     ALLOW_REQUEST_TOOL_CONTROL : {"false", Undefined},
     ENABLE_INLINE_CITATIONS : {"true", Undefined},
     INCLUDE_GROUNDING_METADATA : {Undefined},
     INCLUDE_SEARCH_ENTRY_POINT : {Undefined}]

----------------------------------------------------------------------------
(* The methods of NativeToolsManager, `this.envSettings` passed as settings *)

\* String.prototype.includes on sequences of characters
Includes(s, t) ==
    \E i \in 0..Len(s) : i + Len(t) <= Len(s) /\ SubSeq(s, i + 1, i + Len(t)) = t

isLegacyModel(id) == Includes(id, LegacyMarker)

parseEnvironmentSettings(e) ==
    [enableNativeTools |-> (e.ENABLE_GEMINI_NATIVE_TOOLS = "true"),
     enableGoogleSearch |-> (e.ENABLE_GOOGLE_SEARCH = "true"),
     enableUrlContext |-> (e.ENABLE_URL_CONTEXT = "true"),
     priority |->
        IF e.GEMINI_TOOLS_PRIORITY = Undefined \/ e.GEMINI_TOOLS_PRIORITY = ""
        THEN DefaultToolsPriority
        ELSE e.GEMINI_TOOLS_PRIORITY,
     defaultToNativeTools |-> (e.DEFAULT_TO_NATIVE_TOOLS # "false"),
     allowRequestControl |-> (e.ALLOW_REQUEST_TOOL_CONTROL # "false"),
     enableInlineCitations |-> (e.ENABLE_INLINE_CITATIONS = "true"),
     includeGroundingMetadata |-> (e.INCLUDE_GROUNDING_METADATA # "false"),
     includeSearchEntryPoint |-> (e.INCLUDE_SEARCH_ENTRY_POINT = "true")]

shouldEnableGoogleSearch(settings, params) ==
    IF params.enableSearch = False3 THEN FALSE
    ELSE IF params.enableSearch = True3 THEN TRUE
    ELSE settings.enableGoogleSearch

shouldEnableUrlContext(settings, params) ==
    IF params.enableUrlContext = False3 THEN FALSE
    ELSE IF params.enableUrlContext = True3 THEN TRUE
    ELSE settings.enableUrlContext

\* Mutant: url_context is appended whenever URL Context resolves enabled
createNativeToolsArray_Both(settings, params, id) ==
    LET afterSearch ==
            IF shouldEnableGoogleSearch(settings, params) /\ ~isLegacyModel(id)
            THEN <<GoogleSearch>>
            ELSE <<>>
    IN  IF shouldEnableUrlContext(settings, params)
        THEN Append(afterSearch, UrlContext)
        ELSE afterSearch

createNativeToolsArray(settings, params, id) ==
    LET afterSearch ==
            IF shouldEnableGoogleSearch(settings, params) /\ ~isLegacyModel(id)
            THEN <<GoogleSearch>>
            ELSE <<>>
    IN  IF shouldEnableUrlContext(settings, params) /\ ~shouldEnableGoogleSearch(settings, params)
        THEN Append(afterSearch, UrlContext)
        ELSE afterSearch

createCustomOnlyConfig(custom) ==
    [useNativeTools |-> FALSE,
     useCustomTools |-> TRUE,
     nativeTools |-> <<>>,
     customTools |-> Present(custom),
     priority |-> "custom",
     toolType |-> "custom_only"]

\* The object literal returned at lines 106-113 and again at lines 121-128
NativeConfig(nativeTools) ==
    [useNativeTools |-> TRUE,
     useCustomTools |-> FALSE,
     nativeTools |-> nativeTools,
     customTools |-> Absent,
     priority |-> "native",
     toolType |-> "search_and_url"]

\* Mutant: the native configuration keeps the caller's custom tools next to the native ones
createSearchAndUrlConfig_Mixed(settings, params, custom, id) ==
    LET nativeTools == createNativeToolsArray(settings, params, id)
    IN  IF (settings.priority = "custom_first" \/ params.nativeToolsPriority = "custom")
           /\ ~(settings.priority = "native_first" \/ params.nativeToolsPriority = "native")
           /\ Len(custom) > 0
        THEN createCustomOnlyConfig(custom)
        ELSE [NativeConfig(nativeTools) EXCEPT
                 !.useCustomTools = Len(custom) > 0,
                 !.customTools = Present(custom)]

createSearchAndUrlConfig(settings, params, custom, id) ==
    LET nativeTools == createNativeToolsArray(settings, params, id)
    IN  IF settings.priority = "native_first" \/ params.nativeToolsPriority = "native"
        THEN NativeConfig(nativeTools)
        ELSE IF (settings.priority = "custom_first" \/ params.nativeToolsPriority = "custom")
                /\ Len(custom) > 0
        THEN createCustomOnlyConfig(custom)
        ELSE NativeConfig(nativeTools)

nativeToolsAvailable(settings) ==
    settings.enableGoogleSearch \/ settings.enableUrlContext

nativeRequestedExplicitly(settings, params) ==
    settings.allowRequestControl
    /\ (params.enableNativeTools = True3 \/ params.enableSearch = True3
        \/ params.enableUrlContext = True3)

\* Mutant: default-to-native does not look at the custom tools
shouldDefaultToNative_Always(settings, custom) ==
    settings.defaultToNativeTools

shouldDefaultToNative(settings, custom) ==
    settings.defaultToNativeTools /\ ~(Len(custom) > 0)

shouldConsiderNative(settings, custom, params) ==
    nativeToolsAvailable(settings)
    /\ (nativeRequestedExplicitly(settings, params) \/ shouldDefaultToNative(settings, custom))

\* Mutant: the global ENABLE_GEMINI_NATIVE_TOOLS switch is not consulted
determineToolConfiguration_NoGlobalSwitch(settings, custom, params, id) ==
    IF settings.allowRequestControl /\ params.enableNativeTools = False3
    THEN createCustomOnlyConfig(custom)
    ELSE IF shouldConsiderNative(settings, custom, params)
    THEN createSearchAndUrlConfig(settings, params, custom, id)
    ELSE createCustomOnlyConfig(custom)

\* Mutant: the request's enableNativeTools=false is not consulted
determineToolConfiguration_NoRequestDisable(settings, custom, params, id) ==
    IF ~settings.enableNativeTools
    THEN createCustomOnlyConfig(custom)
    ELSE IF shouldConsiderNative(settings, custom, params)
    THEN createSearchAndUrlConfig(settings, params, custom, id)
    ELSE createCustomOnlyConfig(custom)

determineToolConfiguration(settings, custom, params, id) ==
    IF ~settings.enableNativeTools
    THEN createCustomOnlyConfig(custom)
    ELSE IF settings.allowRequestControl /\ params.enableNativeTools = False3
    THEN createCustomOnlyConfig(custom)
    ELSE IF shouldConsiderNative(settings, custom, params)
    THEN createSearchAndUrlConfig(settings, params, custom, id)
    ELSE createCustomOnlyConfig(custom)

----------------------------------------------------------------------------
(* The state machine: one manager, constructed, serving calls one at a time *)

NoConfig == [useNativeTools |-> FALSE, useCustomTools |-> FALSE, nativeTools |-> <<>>,
             customTools |-> Absent, priority |-> "none", toolType |-> "none"]

\* State right after `new NativeToolsManager(e)`
Constructed(e) ==
    /\ env = e
    /\ envSettings = parseEnvironmentSettings(e)
    /\ pc = "idle"
    /\ customTools = <<>>
    /\ requestParams = NoParams
    /\ modelId = <<>>
    /\ config = NoConfig
    /\ tools = <<>>
    /\ served = {}

Init == \E e \in Envs : Constructed(e)

InitFrame == \E e \in FrameEnvs : Constructed(e)

Served(record, method) == IF record THEN served \cup {method} ELSE served

\* Mutant: the call stores the request's priority override in this.envSettings
DetermineToolConfiguration_Sticky(record) ==
    /\ pc = "idle"
    /\ \E custom \in CustomToolSeqs, params \in RequestParamsSet, id \in ModelIds :
          /\ customTools' = custom
          /\ requestParams' = params
          /\ modelId' = id
          /\ config' = determineToolConfiguration(envSettings, custom, params, id)
          /\ envSettings' =
                IF params.nativeToolsPriority = "custom"
                THEN [envSettings EXCEPT !.priority = "custom_first"]
                ELSE envSettings
    /\ pc' = "determined"
    /\ served' = Served(record, "determineToolConfiguration")
    /\ UNCHANGED <<env, tools>>

\* A call of determineToolConfiguration(customTools, requestParams, modelId)
DetermineToolConfiguration(record) ==
    /\ pc = "idle"
    /\ \E custom \in CustomToolSeqs, params \in RequestParamsSet, id \in ModelIds :
          /\ customTools' = custom
          /\ requestParams' = params
          /\ modelId' = id
          /\ config' = determineToolConfiguration(envSettings, custom, params, id)
    /\ pc' = "determined"
    /\ served' = Served(record, "determineToolConfiguration")
    /\ UNCHANGED <<env, envSettings, tools>>

\* A call of createNativeToolsArray(params, modelId)
CreateNativeToolsArray(record) ==
    /\ pc = "idle"
    /\ \E params \in RequestParamsSet, id \in ModelIds :
          /\ requestParams' = params
          /\ modelId' = id
          /\ tools' = createNativeToolsArray(envSettings, params, id)
    /\ pc' = "built"
    /\ served' = Served(record, "createNativeToolsArray")
    /\ UNCHANGED <<env, envSettings, customTools, config>>

\* The caller has consumed the returned value; the manager awaits the next call
NextRequest ==
    /\ pc # "idle"
    /\ pc' = "idle"
    /\ customTools' = <<>>
    /\ requestParams' = NoParams
    /\ modelId' = <<>>
    /\ config' = NoConfig
    /\ tools' = <<>>
    /\ UNCHANGED <<env, envSettings, served>>

Next ==
    \/ DetermineToolConfiguration(FALSE)
    \/ CreateNativeToolsArray(FALSE)
    \/ NextRequest

Spec == Init /\ [][Next]_vars

NextFrame ==
    \/ DetermineToolConfiguration(TRUE)
    \/ CreateNativeToolsArray(TRUE)
    \/ NextRequest

SpecFrame == InitFrame /\ [][NextFrame]_vars

----------------------------------------------------------------------------
(* Properties *)

\* The custom-only configuration for the custom tools of the last call, written out
CustomOnly ==
    /\ config.useNativeTools = FALSE
    /\ config.useCustomTools = TRUE
    /\ config.nativeTools = <<>>
    /\ config.customTools = <<customTools>>
    /\ config.priority = "custom"
    /\ config.toolType = "custom_only"

\* The native configuration carrying the given descriptors, written out
NativeWith(descriptors) ==
    /\ config.useNativeTools = TRUE
    /\ config.useCustomTools = FALSE
    /\ config.nativeTools = descriptors
    /\ config.customTools = <<>>
    /\ config.priority = "native"
    /\ config.toolType = "search_and_url"

\* A feature's resolution: the request value when it is true or false, else the environment flag
Resolved(requested, flag) ==
    IF requested = True3 THEN TRUE ELSE IF requested = False3 THEN FALSE ELSE flag

SearchResolved == Resolved(requestParams.enableSearch, envSettings.enableGoogleSearch)

UrlResolved == Resolved(requestParams.enableUrlContext, envSettings.enableUrlContext)

\* The request asks for native tools and request-level control is allowed
ExplicitNativeRequest ==
    /\ envSettings.allowRequestControl
    /\ \/ requestParams.enableNativeTools = True3
       \/ requestParams.enableSearch = True3
       \/ requestParams.enableUrlContext = True3

\* considerNative of the decision order, steps 1 to 3
ConsiderNative ==
    /\ envSettings.enableNativeTools
    /\ ~(envSettings.allowRequestControl /\ requestParams.enableNativeTools = False3)
    /\ envSettings.enableGoogleSearch \/ envSettings.enableUrlContext
    /\ ExplicitNativeRequest \/ (envSettings.defaultToNativeTools /\ customTools = <<>>)

\* C1: a returned configuration never has useNativeTools and useCustomTools both
\* true; with useNativeTools the custom tools are absent, with useCustomTools the
\* native tool list is empty.
C1_MutualExclusion ==
    pc = "determined" =>
        /\ ~(config.useNativeTools /\ config.useCustomTools)
        /\ config.useNativeTools => config.customTools = Absent
        /\ config.useCustomTools => config.nativeTools = <<>>

C1_Witness ==
    /\ pc = "determined"
    /\ config.useNativeTools
    /\ config.nativeTools # <<>>
    /\ Len(customTools) > 0

\* C2: with native tools disabled in the environment, every call returns the
\* custom-only configuration with the caller's custom tools unchanged and in order.
C2_GlobalDisable ==
    (pc = "determined" /\ ~envSettings.enableNativeTools) => CustomOnly

C2_Witness ==
    /\ pc = "determined"
    /\ env.ENABLE_GEMINI_NATIVE_TOOLS = "false"
    /\ envSettings.enableGoogleSearch
    /\ envSettings.defaultToNativeTools
    /\ envSettings.allowRequestControl
    /\ requestParams.enableNativeTools = True3
    /\ requestParams.nativeToolsPriority = "native"
    /\ customTools = <<"toolB", "toolA">>
    /\ CustomOnly

\* C3: with request control allowed, a request that sets enableNativeTools=false
\* gets the custom-only configuration, whatever else the environment and the
\* request say.
C3_RequestDisable ==
    (/\ pc = "determined"
     /\ envSettings.allowRequestControl
     /\ requestParams.enableNativeTools = False3) => CustomOnly

C3_Witness ==
    /\ pc = "determined"
    /\ envSettings.enableNativeTools
    /\ envSettings.enableGoogleSearch
    /\ envSettings.enableUrlContext
    /\ envSettings.defaultToNativeTools
    /\ envSettings.priority = "native_first"
    /\ envSettings.allowRequestControl
    /\ requestParams.enableNativeTools = False3
    /\ requestParams.enableSearch = True3
    /\ requestParams.enableUrlContext = True3
    /\ requestParams.nativeToolsPriority = "native"
    /\ CustomOnly

\* C4: with a non-empty custom tool sequence and no explicit native request, the
\* call returns the custom-only configuration: default-to-native never enables
\* native tools next to custom tools.
C4_NoDefaultWithCustomTools ==
    (/\ pc = "determined"
     /\ Len(customTools) > 0
     /\ ~ExplicitNativeRequest) => CustomOnly

C4_Witness ==
    /\ pc = "determined"
    /\ envSettings.enableNativeTools
    /\ envSettings.enableGoogleSearch
    /\ envSettings.defaultToNativeTools
    /\ envSettings.allowRequestControl
    /\ Len(customTools) > 0
    /\ requestParams.enableNativeTools = Undefined
    /\ requestParams.enableSearch = Undefined
    /\ requestParams.enableUrlContext = Undefined
    /\ requestParams.nativeToolsPriority = "native"
    /\ CustomOnly

\* C5: when native tools are being considered, the call returns the custom-only
\* configuration exactly when the environment priority is custom_first, the
\* request's priority is not native and the custom tool sequence is non-empty;
\* in every other case it returns the native configuration.
C5_NativeWinsByDefault ==
    (pc = "determined" /\ ConsiderNative) =>
        IF /\ envSettings.priority = "custom_first"
           /\ requestParams.nativeToolsPriority # "native"
           /\ Len(customTools) > 0
        THEN CustomOnly
        ELSE NativeWith(config.nativeTools)

\* C6: createNativeToolsArray returns [google_search] exactly when Search resolves
\* enabled and the model id does not contain "gemini-1.5", [url_context] exactly
\* when URL Context resolves enabled and Search resolves disabled, and the empty
\* sequence otherwise.
C6_NativeToolsArray ==
    pc = "built" =>
        /\ tools = <<GoogleSearch>> <=> (SearchResolved /\ ~Includes(modelId, LegacyMarker))
        /\ tools = <<UrlContext>> <=> (UrlResolved /\ ~SearchResolved)
        /\ tools \in {<<>>, <<GoogleSearch>>, <<UrlContext>>}

C6_Witness ==
    /\ pc = "built"
    /\ requestParams.enableSearch = True3
    /\ ~envSettings.enableGoogleSearch
    /\ UrlResolved
    /\ Includes(modelId, LegacyMarker)
    /\ tools = <<>>

\* C7: a manager constructed with a GEMINI_TOOLS_PRIORITY that is neither
\* native_first nor custom_first returns what a manager constructed with
\* native_first returns for the same call.
C7_UnrecognizedPriorityIsNativeFirst ==
    (pc = "determined" /\ env.GEMINI_TOOLS_PRIORITY \notin {"native_first", "custom_first"}) =>
        config = determineToolConfiguration(
                     parseEnvironmentSettings([env EXCEPT !.GEMINI_TOOLS_PRIORITY = "native_first"]),
                     customTools, requestParams, modelId)

\* C8: no call changes the settings parsed at construction, and the value a call
\* returns is determined by its arguments and the environment the manager was
\* constructed with, whichever calls ran before it.
C8_FrozenSettings ==
    /\ envSettings = parseEnvironmentSettings(env)
    /\ pc = "determined" =>
          config = determineToolConfiguration(parseEnvironmentSettings(env),
                                              customTools, requestParams, modelId)
    /\ pc = "built" =>
          tools = createNativeToolsArray(parseEnvironmentSettings(env), requestParams, modelId)

C8_Witness ==
    /\ pc = "determined"
    /\ served = {"determineToolConfiguration", "createNativeToolsArray"}
    /\ config.useNativeTools
    /\ requestParams.nativeToolsPriority = "custom"

\* C9: a native configuration always carries at least one native tool descriptor.
C9_NativeConfigurationHasTools ==
    (pc = "determined" /\ config.useNativeTools) => config.nativeTools # <<>>

\* C10: with request control disallowed, the returned configuration is the same
\* for every combination of request parameters.
C10_RequestHasNoInfluence ==
    (pc = "determined" /\ ~envSettings.allowRequestControl) =>
        \A params \in RequestParamsSet :
            determineToolConfiguration(envSettings, customTools, params, modelId) = config

====
